---- MODULE Spec2Model ----
(***************************************************************************)
(* Model of src/users/api.js: the single-resource lookups, the retirement  *)
(* fallback, the aggregation workflow getAllUserData and the mutation      *)
(* operations.  The authenticated HTTP client is the environment: every    *)
(* remote request is answered by a nondeterministically chosen response.   *)
(***************************************************************************)
EXTENDS Integers, Sequences, FiniteSets, TLC

VARIABLES
  op,                  \* the exported function being invoked ("none" before the first call)
  arg,                 \* its argument (user identifier, username, uuid)
  pc,                  \* position of the invocation
  requests,            \* remote requests issued by the invocation, with their responses
  errors,              \* getAllUserData: const errors = []
  user,                \* getAllUserData: let user = null
  entitlements,        \* getAllUserData: let entitlements = []
  enrollments,         \* getAllUserData: let enrollments = []
  retirement,          \* getAllUserData: let retirement = null
  verificationStatus,  \* getAllUserData: let verificationStatus = null
  caught,              \* getAllUserData: the error bound by catch (error)
  outcome              \* how the invocation settled: pending, return or throw

vars == <<op, arg, pc, requests, errors, user, entitlements, enrollments,
          retirement, verificationStatus, caught, outcome>>

-----------------------------------------------------------------------------
(* Bounds *)

\* longest array the accounts endpoint answers with
MaxArrayLen == 2

-----------------------------------------------------------------------------
(* JavaScript values *)

Null == [tag |-> "null"]

Undefined == [tag |-> "undefined"]

EmptyArray == [tag |-> "array", elems |-> <<>>]

-----------------------------------------------------------------------------
(* Identifiers and the two patterns *)

Lower == {"a", "b", "c", "d", "e", "f", "g", "h", "i", "j", "k", "l", "m",
          "n", "o", "p", "q", "r", "s", "t", "u", "v", "w", "x", "y", "z"}

Upper == {"A", "B", "C", "D", "E", "F", "G", "H", "I", "J", "K", "L", "M",
          "N", "O", "P", "Q", "R", "S", "T", "U", "V", "W", "X", "Y", "Z"}

Digit == {"0", "1", "2", "3", "4", "5", "6", "7", "8", "9"}

\* [a-zA-Z0-9._%+-]
EmailLocalClass == Lower \cup Upper \cup Digit \cup {".", "_", "%", "+", "-"}

\* [a-zA-Z0-9.-]
EmailDomainClass == Lower \cup Upper \cup Digit \cup {".", "-"}

\* [a-zA-Z]
EmailTldClass == Lower \cup Upper

\* [\w.@_+-]
UsernameClass == Lower \cup Upper \cup Digit \cup {"_", ".", "@", "+", "-"}

\* The identifiers the invocations are given, each with its characters.
Identifiers == {"alice", "a@b.co", "a@b.c", "%@b.co", "a b", "a%", ""}

Chars(id) ==
  CASE id = "alice"  -> <<"a", "l", "i", "c", "e">>
    [] id = "a@b.co" -> <<"a", "@", "b", ".", "c", "o">>
    [] id = "a@b.c"  -> <<"a", "@", "b", ".", "c">>
    [] id = "%@b.co" -> <<"%", "@", "b", ".", "c", "o">>
    [] id = "a b"    -> <<"a", " ", "b">>
    [] id = "a%"     -> <<"a", "%">>
    [] OTHER         -> <<>>

AllIn(s, from, to, class) == \A k \in from..to : s[k] \in class

\* '^[a-zA-Z0-9._%+-]+@[a-zA-Z0-9.-]+\\.[a-zA-Z]{2,}$'
EMAIL_REGEX(s) ==
  \E i \in 2..Len(s) : \E j \in (i + 2)..(Len(s) - 2) :
    /\ s[i] = "@"
    /\ s[j] = "."
    /\ AllIn(s, 1, i - 1, EmailLocalClass)
    /\ AllIn(s, i + 1, j - 1, EmailDomainClass)
    /\ AllIn(s, j + 1, Len(s), EmailTldClass)

\* the pattern with * in place of +
USERNAME_REGEX_Star(s) == AllIn(s, 1, Len(s), UsernameClass)

\* '^[\\w.@_+-]+$'
USERNAME_REGEX(s) == Len(s) >= 1 /\ AllIn(s, 1, Len(s), UsernameClass)

MatchesEmail(id) == EMAIL_REGEX(Chars(id))

MatchesUsername(id) == USERNAME_REGEX(Chars(id))

-----------------------------------------------------------------------------
(* Error descriptors *)

ErrorDescriptor(text, type, topic) ==
  [text |-> text, type |-> type, topic |-> topic, code |-> "null", dismissible |-> TRUE]

\* Message texts: the template and the values interpolated into it.
Text(template, ident, requestDate, retirementDate) ==
  [template |-> template, ident |-> ident,
   requestDate |-> requestDate, retirementDate |-> retirementDate]

\* "We couldn't find a user with the email|username "<id>"."
notFoundErrorText(form, id) ==
  Text("We couldn't find a user with the", <<form, id>>, "", "")

GenericUserErrorText ==
  Text("There was an error loading this user's data. Check the JavaScript console for detailed errors.",
       <<>>, "", "")

-----------------------------------------------------------------------------
(* The remote client: getAuthenticatedHttpClient().get / .patch / .post *)

Request(method, endpoint, key) == [method |-> method, endpoint |-> endpoint, key |-> key]

\* The URL templates under LMS_BASE_URL; the interpolated value is the request's key.
EntitlementsUrl == "/api/entitlements/v1/entitlements/?user={username}"

EnrollmentUrl == "/support/enrollment/{username}"

AccountsByEmailUrl == "/api/user/v1/accounts?email={userIdentifier}"

AccountsByUsernameUrl == "/api/user/v1/accounts/{userIdentifier}"

VerificationStatusUrl == "/api/user/v1/accounts/{username}/verification_status/"

RetirementUrl == "/api/user/v1/accounts/{username}/retirement_information/"

EntitlementUrl == "/api/entitlements/v1/entitlements/{uuid}/"

EntitlementsCreateUrl == "/api/entitlements/v1/entitlements/"

\* A 2xx answer carrying a payload.
Ok(data) == [data |-> data, ok |-> TRUE, status |-> 200, bodyJson |-> TRUE]

\* A failure: customAttributes.httpErrorStatus (0 when the error carries none),
\* and whether customAttributes.httpErrorResponseData is a JSON text.
Fail(status, bodyJson) == [data |-> Undefined, ok |-> FALSE, status |-> status, bodyJson |-> bodyJson]

Statuses == {400, 404, 500}

\* A non-2xx response carries its status and its body serialised as JSON.
ResponseFailures == {Fail(st, TRUE) : st \in Statuses}

\* A request that got no response (network error, timeout): the error carries
\* neither a status nor response data.
TransportFailure == Fail(0, FALSE)

Failures == ResponseFailures \cup {TransportFailure}

Usernames == {"alice", "bob"}

UserRecord(u) == [tag |-> "object", username |-> u]

UserRecords == {UserRecord(u) : u \in Usernames}

Array(elems) == [tag |-> "array", elems |-> elems]

UserArrays == UNION {{Array(e) : e \in [1..n -> UserRecords]} : n \in 0..MaxArrayLen}

AccountsPayloads == UserRecords \cup UserArrays \cup {Null}

EntitlementsPayloads == {[tag |-> "entitlements", results |-> n] : n \in 0..1}

EnrollmentsPayloads == {[tag |-> "enrollments", results |-> n] : n \in 0..1}

VerificationStatus(status, expirationDatetime, isVerified) ==
  [status |-> status, expirationDatetime |-> expirationDatetime, isVerified |-> isVerified]

VerificationPayloads == {VerificationStatus("approved", "2030-01-01", TRUE),
                         VerificationStatus("none", "", FALSE)}

\* retirement_information payloads, snake_case as served; "" is an absent date
RetirementPayloads == {[retirement_request_date |-> "2020-01-01", retirement_date |-> d] :
                         d \in {"", "2020-02-01"}}

MutationPayloads == {[tag |-> "saved", id |-> 1]}

Responses(payloads) == {Ok(d) : d \in payloads} \cup Failures

\* The error object the client rejects with.
HttpError(req, resp) ==
  [status |-> resp.status, bodyJson |-> resp.bodyJson, userError |-> Undefined,
   name |-> "HttpError", message |-> req.endpoint]

JsError(name, message) ==
  [status |-> 0, bodyJson |-> FALSE, userError |-> Undefined, name |-> name, message |-> message]

\* JSON.parse(error.customAttributes.httpErrorResponseData) throws on a non-JSON text
JSONParseThrows(error) == ~error.bodyJson

SyntaxError == JsError("SyntaxError", "Unexpected token in JSON")

-----------------------------------------------------------------------------
(* Settled promises *)

Pending == [error |-> Undefined, kind |-> "pending", value |-> Undefined]

Return(v) == [error |-> Undefined, kind |-> "return", value |-> v]

Throw(e) == [error |-> e, kind |-> "throw", value |-> Undefined]

\* One execution of a single-request function: the requests it issued and how it settled.
Run(reqs, out) == [reqs |-> reqs, out |-> out]

Exchange(req, resp) == [req |-> req, resp |-> resp]

-----------------------------------------------------------------------------
(* Single-resource lookups: the executions each function can have *)

\* getEntitlements(username): one GET, no try/catch
getEntitlementsRuns(username) ==
  LET req == Request("GET", EntitlementsUrl, username)
  IN {Run(<<Exchange(req, resp)>>,
          IF resp.ok THEN Return(resp.data) ELSE Throw(HttpError(req, resp))) :
        resp \in Responses(EntitlementsPayloads)}

\* a failure of the GET swallowed instead of propagated
getEnrollmentsRuns_Swallow(username) ==
  LET req == Request("GET", EnrollmentUrl, username)
  IN {Run(<<Exchange(req, resp)>>,
          IF resp.ok THEN Return(resp.data) ELSE Return(EmptyArray)) :
        resp \in Responses(EnrollmentsPayloads)}

\* getEnrollments(username): one GET, no try/catch
getEnrollmentsRuns(username) ==
  LET req == Request("GET", EnrollmentUrl, username)
  IN {Run(<<Exchange(req, resp)>>,
          IF resp.ok THEN Return(resp.data) ELSE Throw(HttpError(req, resp))) :
        resp \in Responses(EnrollmentsPayloads)}

InvalidArgument == JsError("Error", "Invalid Argument!")

\* never unwraps the array
FirstOrData_Whole(data) == data

\* Array.isArray(data) && data.length > 0 ? data[0] : data
FirstOrData(data) ==
  IF data.tag = "array" /\ Len(data.elems) > 0 THEN data.elems[1] ELSE data

\* the 404 branch missing: every failure gets the generic descriptor
getUserCatch_Generic(error, text) ==
  IF JSONParseThrows(error) THEN Throw(SyntaxError)
  ELSE Throw([error EXCEPT !.userError =
                ErrorDescriptor(GenericUserErrorText, "danger", "general")])

\* the catch block of getUser
getUserCatch(error, text) ==
  IF JSONParseThrows(error) THEN Throw(SyntaxError)
  ELSE IF error.status = 404
       THEN Throw([error EXCEPT !.userError = ErrorDescriptor(text, "error", "general")])
       ELSE Throw([error EXCEPT !.userError =
                     ErrorDescriptor(GenericUserErrorText, "danger", "general")])

\* the final else missing: an unmatched identifier is looked up as a username
getUserRuns_NoValidation(userIdentifier) ==
  LET form == IF MatchesEmail(userIdentifier) THEN "email" ELSE "username"
      req == IF form = "email"
             THEN Request("GET", AccountsByEmailUrl, userIdentifier)
             ELSE Request("GET", AccountsByUsernameUrl, userIdentifier)
  IN {Run(<<Exchange(req, resp)>>,
          IF resp.ok THEN Return(FirstOrData(resp.data))
          ELSE getUserCatch(HttpError(req, resp),
                            notFoundErrorText(form, userIdentifier))) :
        resp \in Responses(AccountsPayloads)}

\* getUser(userIdentifier)
getUserRuns(userIdentifier) ==
  IF MatchesEmail(userIdentifier) \/ MatchesUsername(userIdentifier)
  THEN LET form == IF MatchesEmail(userIdentifier) THEN "email" ELSE "username"
           req == IF form = "email"
                  THEN Request("GET", AccountsByEmailUrl, userIdentifier)
                  ELSE Request("GET", AccountsByUsernameUrl, userIdentifier)
       IN {Run(<<Exchange(req, resp)>>,
               IF resp.ok THEN Return(FirstOrData(resp.data))
               ELSE getUserCatch(HttpError(req, resp),
                                 notFoundErrorText(form, userIdentifier))) :
             resp \in Responses(AccountsPayloads)}
  ELSE {Run(<<>>, Throw(InvalidArgument))}

NotAvailable == VerificationStatus("Not Available", "", FALSE)

StatusUnknown == VerificationStatus("Error, status unknown", "", FALSE)

\* the catch block of getUserVerificationStatus
getUserVerificationStatusCatch(error) ==
  IF JSONParseThrows(error) THEN Throw(SyntaxError)
  ELSE IF error.status = 404 THEN Return(NotAvailable) ELSE Return(StatusUnknown)

\* getUserVerificationStatus(username)
getUserVerificationStatusRuns(username) ==
  LET req == Request("GET", VerificationStatusUrl, username)
  IN {Run(<<Exchange(req, resp)>>,
          IF resp.ok THEN Return(resp.data)
          ELSE getUserVerificationStatusCatch(HttpError(req, resp))) :
        resp \in Responses(VerificationPayloads)}

\* camelCaseObject(data) on a retirement_information payload
camelCaseObject(data) ==
  [retirementDate |-> data.retirement_date,
   retirementRequestDate |-> data.retirement_request_date]

\* the text getRetirement builds from the record
errorString(username, data) ==
  Text("User with username has been retired. The user requested retirement on",
       <<username>>, data.retirementRequestDate,
       IF data.retirementDate # "" THEN data.retirementDate
       ELSE "Information about their retirement date is not available")

\* the 404 branch missing: every failure falls off the end
getRetirementCatch_Swallow404(error, username) == Return(Undefined)

\* the catch block of getRetirement: only a 404 is handled, anything else falls
\* off the end of the function
getRetirementCatch(error, username) ==
  IF error.status = 404
  THEN Return([error EXCEPT !.userError =
                 ErrorDescriptor(notFoundErrorText("username", username), "error", "general")])
  ELSE Return(Undefined)

\* getRetirement(username)
getRetirementRuns(username) ==
  LET req == Request("GET", RetirementUrl, username)
  IN {Run(<<Exchange(req, resp)>>,
          IF resp.ok
          THEN Return([userError |->
                         ErrorDescriptor(errorString(username, camelCaseObject(resp.data)),
                                         "error", "general")])
          ELSE getRetirementCatch(HttpError(req, resp), username)) :
        resp \in Responses(RetirementPayloads)}

-----------------------------------------------------------------------------
(* Mutation operations *)

SubmitErrorText ==
  Text("There was an error submitting this entitlement. Check the JavaScript console for detailed errors.",
       <<>>, "", "")

\* only a 400 turned into a descriptor, any other failure rethrown
mutationCatch_Rethrow(error, topic) ==
  IF error.status # 400 THEN Throw(error)
  ELSE IF JSONParseThrows(error) THEN Throw(SyntaxError)
  ELSE Return([errors |-> <<ErrorDescriptor(SubmitErrorText, "danger", topic)>>])

\* the catch block shared by the three mutation operations: the body is
\* parsed for logging only when the status is 400
mutationCatch(error, topic) ==
  IF error.status = 400 /\ JSONParseThrows(error) THEN Throw(SyntaxError)
  ELSE Return([errors |-> <<ErrorDescriptor(SubmitErrorText, "danger", topic)>>])

Uuids == {"uuid-1", "uuid-2"}

\* patchEntitlement({uuid, action, unenrolledRun, comments})
patchEntitlementRuns(uuid) ==
  LET req == Request("PATCH", EntitlementUrl, uuid)
  IN {Run(<<Exchange(req, resp)>>,
          IF resp.ok THEN Return(resp.data)
          ELSE mutationCatch(HttpError(req, resp), "entitlements")) :
        resp \in Responses(MutationPayloads)}

\* postEntitlement({user, courseUuid, mode, action, comments})
postEntitlementRuns(username) ==
  LET req == Request("POST", EntitlementsCreateUrl, username)
  IN {Run(<<Exchange(req, resp)>>,
          IF resp.ok THEN Return(resp.data)
          ELSE mutationCatch(HttpError(req, resp), "entitlements")) :
        resp \in Responses(MutationPayloads)}

\* postEnrollmentChange({user, courseID, newMode, oldMode, reason})
postEnrollmentChangeRuns(username) ==
  LET req == Request("POST", EnrollmentUrl, username)
  IN {Run(<<Exchange(req, resp)>>,
          IF resp.ok THEN Return(resp.data)
          ELSE mutationCatch(HttpError(req, resp), "enrollments")) :
        resp \in Responses(MutationPayloads)}

-----------------------------------------------------------------------------
(* Invocations *)

Init ==
  /\ op = "none"
  /\ arg = ""
  /\ pc = "idle"
  /\ requests = <<>>
  /\ errors = <<>>
  /\ user = Null
  /\ entitlements = EmptyArray
  /\ enrollments = EmptyArray
  /\ retirement = Null
  /\ verificationStatus = Null
  /\ caught = Undefined
  /\ outcome = Pending

\* No invocation is in progress.
Idle == pc \in {"idle", "done"}

\* An exported single-request function is called and settles.
Invoke(name, a, run) ==
  /\ Idle
  /\ op' = name
  /\ arg' = a
  /\ pc' = "done"
  /\ requests' = run.reqs
  /\ outcome' = run.out
  /\ errors' = <<>>
  /\ user' = Null
  /\ entitlements' = EmptyArray
  /\ enrollments' = EmptyArray
  /\ retirement' = Null
  /\ verificationStatus' = Null
  /\ caught' = Undefined

getEntitlements == \E u \in Usernames : \E run \in getEntitlementsRuns(u) : Invoke("getEntitlements", u, run)

getEnrollments == \E u \in Usernames : \E run \in getEnrollmentsRuns(u) : Invoke("getEnrollments", u, run)

getUser == \E id \in Identifiers : \E run \in getUserRuns(id) : Invoke("getUser", id, run)

getUserVerificationStatus ==
  \E u \in Usernames : \E run \in getUserVerificationStatusRuns(u) :
    Invoke("getUserVerificationStatus", u, run)

getRetirement == \E u \in Usernames : \E run \in getRetirementRuns(u) : Invoke("getRetirement", u, run)

patchEntitlement == \E id \in Uuids : \E run \in patchEntitlementRuns(id) : Invoke("patchEntitlement", id, run)

postEntitlement == \E u \in Usernames : \E run \in postEntitlementRuns(u) : Invoke("postEntitlement", u, run)

postEnrollmentChange ==
  \E u \in Usernames : \E run \in postEnrollmentChangeRuns(u) : Invoke("postEnrollmentChange", u, run)

-----------------------------------------------------------------------------
(* getAllUserData, one action per await *)

\* the object literal getAllUserData returns
AggregateResult(errs, usr, ents, enrs, ver) ==
  [errors |-> errs, user |-> usr, entitlements |-> ents, enrollments |-> enrs,
   verificationStatus |-> ver]

\* a property the record does not have is read
UsernameOf_Missing(usr) == "undefined"

\* user.username as interpolated into the dependent URLs
UsernameOf(usr) == IF usr.tag = "object" THEN usr.username ELSE "undefined"

TypeError == JsError("TypeError", "Cannot read properties of undefined (reading 'userError')")

\* the locals are declared and getUser is awaited
getAllUserData_getUser ==
  \E userIdentifier \in Identifiers : \E run \in getUserRuns(userIdentifier) :
    /\ Idle
    /\ op' = "getAllUserData"
    /\ arg' = userIdentifier
    /\ requests' = run.reqs
    /\ errors' = <<>>
    /\ entitlements' = EmptyArray
    /\ enrollments' = EmptyArray
    /\ retirement' = Null
    /\ verificationStatus' = Null
    /\ IF run.out.kind = "return"
       THEN /\ user' = run.out.value
            /\ caught' = Undefined
            /\ IF user' # Null
               THEN pc' = "getEntitlements" /\ outcome' = Pending
               ELSE /\ pc' = "done"
                    /\ outcome' = Return(AggregateResult(<<>>, user', EmptyArray, EmptyArray, Null))
       ELSE /\ user' = Null
            /\ caught' = run.out.error
            /\ pc' = "catch"
            /\ outcome' = Pending

\* the catch block: getRetirement is awaited, its descriptor and the caught
\* error's descriptor are pushed, or the caught error is rethrown
getAllUserData_catch ==
  /\ pc = "catch"
  /\ \E run \in getRetirementRuns(arg) :
       /\ requests' = requests \o run.reqs
       /\ pc' = "done"
       /\ IF run.out.kind = "throw"
          THEN /\ outcome' = run.out
               /\ UNCHANGED <<retirement, errors>>
          ELSE /\ retirement' = run.out.value
               /\ IF retirement' = Undefined
                  THEN /\ outcome' = Throw(TypeError)
                       /\ UNCHANGED errors
                  ELSE IF caught.userError # Undefined
                       THEN /\ errors' = errors \o <<retirement'.userError, caught.userError>>
                            /\ outcome' = Return(AggregateResult(errors', user, entitlements,
                                                                 enrollments, verificationStatus))
                       ELSE /\ errors' = Append(errors, retirement'.userError)
                            /\ outcome' = Throw(caught)
  /\ UNCHANGED <<op, arg, user, entitlements, enrollments, verificationStatus, caught>>

getAllUserData_getEntitlements ==
  /\ pc = "getEntitlements"
  /\ \E run \in getEntitlementsRuns(UsernameOf(user)) :
       /\ requests' = requests \o run.reqs
       /\ IF run.out.kind = "return"
          THEN entitlements' = run.out.value /\ pc' = "getEnrollments" /\ UNCHANGED outcome
          ELSE outcome' = run.out /\ pc' = "done" /\ UNCHANGED entitlements
  /\ UNCHANGED <<op, arg, errors, user, enrollments, retirement, verificationStatus, caught>>

getAllUserData_getEnrollments ==
  /\ pc = "getEnrollments"
  /\ \E run \in getEnrollmentsRuns(UsernameOf(user)) :
       /\ requests' = requests \o run.reqs
       /\ IF run.out.kind = "return"
          THEN enrollments' = run.out.value /\ pc' = "getUserVerificationStatus" /\ UNCHANGED outcome
          ELSE outcome' = run.out /\ pc' = "done" /\ UNCHANGED enrollments
  /\ UNCHANGED <<op, arg, errors, user, entitlements, retirement, verificationStatus, caught>>

\* the last await, then the return statement
getAllUserData_getUserVerificationStatus ==
  /\ pc = "getUserVerificationStatus"
  /\ \E run \in getUserVerificationStatusRuns(UsernameOf(user)) :
       /\ requests' = requests \o run.reqs
       /\ pc' = "done"
       /\ IF run.out.kind = "return"
          THEN /\ verificationStatus' = run.out.value
               /\ outcome' = Return(AggregateResult(errors, user, entitlements, enrollments,
                                                    verificationStatus'))
          ELSE outcome' = run.out /\ UNCHANGED verificationStatus
  /\ UNCHANGED <<op, arg, errors, user, entitlements, enrollments, retirement, caught>>

Next ==
  \/ getEntitlements
  \/ getEnrollments
  \/ getUser
  \/ getUserVerificationStatus
  \/ getRetirement
  \/ patchEntitlement
  \/ postEntitlement
  \/ postEnrollmentChange
  \/ getAllUserData_getUser
  \/ getAllUserData_catch
  \/ getAllUserData_getEntitlements
  \/ getAllUserData_getEnrollments
  \/ getAllUserData_getUserVerificationStatus

Spec == Init /\ [][Next]_vars

-----------------------------------------------------------------------------
(* Vocabulary of the properties *)

InAllUserData == op = "getAllUserData"

\* the requests issued so far, without their responses
Issued == [k \in 1..Len(requests) |-> requests[k].req]

\* the identifiers of Identifiers that match neither pattern, listed by hand
InvalidIdentifiers == {"a b", "a%", ""}

\* the identifiers of Identifiers that match the email pattern, listed by hand
EmailIdentifiers == {"a@b.co", "%@b.co"}

NotFoundDescriptor(form, id) ==
  [text |-> [template |-> "We couldn't find a user with the", ident |-> <<form, id>>,
             requestDate |-> "", retirementDate |-> ""],
   type |-> "error", topic |-> "general", code |-> "null", dismissible |-> TRUE]

\* what the retirement fallback contributes for a retirement response it handles
RetirementDescriptor(id, resp) ==
  IF resp.ok
  THEN [text |-> [template |-> "User with username has been retired. The user requested retirement on",
                  ident |-> <<id>>,
                  requestDate |-> resp.data.retirement_request_date,
                  retirementDate |->
                    IF resp.data.retirement_date = ""
                    THEN "Information about their retirement date is not available"
                    ELSE resp.data.retirement_date],
        type |-> "error", topic |-> "general", code |-> "null", dismissible |-> TRUE]
  ELSE NotFoundDescriptor("username", id)

\* the retirement GET was answered with a record or with a 404
RetirementHandled(resp) == resp.ok \/ resp.status = 404

\* getUser failed inside getAllUserData with a 404-status failure
UserLookupFailed404 == InAllUserData /\ caught # Undefined /\ caught.status = 404

Defaults(errs) == Return([errors |-> errs, user |-> Null, entitlements |-> EmptyArray,
                          enrollments |-> EmptyArray, verificationStatus |-> Null])

UserNotFound == NotFoundDescriptor(IF arg \in EmailIdentifiers THEN "email" ELSE "username", arg)

-----------------------------------------------------------------------------
(* C1 *)

\* C1 as stated: whenever getUser failed with a 404-status failure, whatever
\* the retirement GET answered, getAllUserData returns the two descriptors
\* (retirement fallback, then user not found) and the default data fields.
C1_Original ==
  (UserLookupFailed404 /\ pc = "done") =>
    /\ Len(requests) = 2
    /\ outcome = Defaults(<<RetirementDescriptor(arg, requests[2].resp), UserNotFound>>)

\* C1 amended: when getUser failed with a 404-status failure and the
\* retirement GET succeeded or failed with status 404, getAllUserData returns
\* errors = [retirement-fallback descriptor, user-not-found descriptor] with
\* user = null, entitlements = [], enrollments = [], verificationStatus = null.
C1_Theorem ==
  (UserLookupFailed404 /\ pc = "done") =>
    /\ Len(requests) = 2
    /\ RetirementHandled(requests[2].resp) =>
         outcome = Defaults(<<RetirementDescriptor(arg, requests[2].resp), UserNotFound>>)

C1_Witness ==
  /\ UserLookupFailed404 /\ pc = "done" /\ arg = "a@b.co"
  /\ Len(requests) = 2 /\ requests[2].resp.ok
  /\ outcome.kind = "return" /\ Len(outcome.value.errors) = 2

-----------------------------------------------------------------------------
(* C2 *)

\* what C2 says of a finished invocation whose getUser failed
FallbackThenDescriptorOrRethrow ==
  /\ Len(errors) >= 1
  /\ errors[1] = RetirementDescriptor(arg, requests[Len(requests)].resp)
  /\ IF caught.userError # Undefined
     THEN /\ errors = <<errors[1], caught.userError>>
          /\ outcome = Defaults(errors)
     ELSE /\ Len(errors) = 1
          /\ caught \in {InvalidArgument, SyntaxError}
          /\ outcome = Throw(caught)

RetirementIssuedLast ==
  /\ Len(requests) >= 1
  /\ requests[Len(requests)].req = Request("GET", RetirementUrl, arg)

\* C2 as stated: whenever getUser failed, for every outcome of the retirement
\* GET, the fallback descriptor is appended first, then the caught error's
\* descriptor is appended and the workflow returns, or else the caught error
\* itself leaves getAllUserData.
C2_Original ==
  (InAllUserData /\ caught # Undefined /\ pc = "done") =>
    RetirementIssuedLast /\ FallbackThenDescriptorOrRethrow

\* C2 amended: whenever getUser failed the retirement fallback is invoked;
\* when the retirement GET succeeded or failed with status 404 its descriptor
\* is appended first, then the caught error's descriptor is appended and the
\* workflow returns, or, the caught error carrying none, that same error
\* leaves getAllUserData.
C2_Theorem ==
  (InAllUserData /\ caught # Undefined /\ pc = "done") =>
    /\ RetirementIssuedLast
    /\ RetirementHandled(requests[Len(requests)].resp) => FallbackThenDescriptorOrRethrow

C2_Witness ==
  /\ InAllUserData /\ pc = "done" /\ caught = SyntaxError
  /\ Len(requests) = 2 /\ requests[2].resp.status = 404
  /\ Len(errors) = 1 /\ outcome = Throw(SyntaxError)

-----------------------------------------------------------------------------
(* C3 *)

\* the user lookup of getAllUserData succeeded with a record
UserLookupGaveRecord == InAllUserData /\ caught = Undefined /\ user.tag = "object"

DependentRequests(u) ==
  <<Request("GET", EntitlementsUrl, u), Request("GET", EnrollmentUrl, u),
    Request("GET", VerificationStatusUrl, u)>>

\* C3 as stated: every finished run whose user lookup gave a record with
\* username u issued exactly the three dependent GETs keyed on u, and
\* returned errors = [] with the four data fields populated.
C3_Original ==
  (UserLookupGaveRecord /\ pc = "done") =>
    /\ SubSeq(Issued, 2, Len(requests)) = DependentRequests(user.username)
    /\ outcome.kind = "return"
    /\ outcome.value.errors = <<>>
    /\ outcome.value.user = user
    /\ outcome.value.entitlements = requests[2].resp.data
    /\ outcome.value.enrollments = requests[3].resp.data
    /\ outcome.value.verificationStatus # Null

\* C3 amended: in a run whose user lookup gave a record with username u, the
\* requests after the accounts GET are a prefix of entitlements(u),
\* enrollments(u), verification(u), each issued once, none is a retirement
\* GET, and a run that returns has issued all three and returns errors = []
\* with user, entitlements and enrollments taken from their responses and
\* verificationStatus taken from its response or its fallback value.
C3_Theorem ==
  UserLookupGaveRecord =>
    LET dep == SubSeq(Issued, 2, Len(requests))
        d == requests[1].resp.data
    IN /\ Len(requests) >= 1
       /\ requests[1].req.endpoint \in {AccountsByEmailUrl, AccountsByUsernameUrl}
       /\ requests[1].resp.ok
       /\ user = IF d.tag = "array" THEN d.elems[1] ELSE d
       /\ Len(dep) <= 3
       /\ dep = SubSeq(DependentRequests(user.username), 1, Len(dep))
       /\ (pc = "done" /\ outcome.kind = "return") =>
            /\ Len(dep) = 3
            /\ outcome.value =
                 [errors |-> <<>>, user |-> user,
                  entitlements |-> requests[2].resp.data,
                  enrollments |-> requests[3].resp.data,
                  verificationStatus |->
                    IF requests[4].resp.ok THEN requests[4].resp.data
                    ELSE IF requests[4].resp.status = 404
                         THEN [status |-> "Not Available", expirationDatetime |-> "",
                               isVerified |-> FALSE]
                         ELSE [status |-> "Error, status unknown", expirationDatetime |-> "",
                               isVerified |-> FALSE]]
       /\ (pc = "done" /\ Len(dep) = 3 /\ (requests[4].resp.ok \/ requests[4].resp.bodyJson)) =>
            outcome.kind = "return"

C3_Witness ==
  /\ UserLookupGaveRecord /\ pc = "done" /\ arg = "a@b.co" /\ user.username = "bob"
  /\ Len(requests) = 4 /\ requests[4].resp.ok
  /\ outcome.kind = "return" /\ outcome.value.entitlements = requests[2].resp.data

-----------------------------------------------------------------------------
(* C4 *)

\* C4 as stated: when the retirement GET fails with any status other than
\* 404, getRetirement does not complete normally: the failure of the GET
\* leaves it.
C4_Claim ==
  (op = "getRetirement" /\ pc = "done" /\ ~requests[1].resp.ok /\ requests[1].resp.status # 404) =>
    /\ outcome.kind = "throw"
    /\ outcome.error.name = "HttpError"

-----------------------------------------------------------------------------
(* C5 *)

\* C5 as stated: an invocation of getAllUserData with an identifier matching
\* neither pattern issues no remote request of any kind.
C5_Original == (InAllUserData /\ arg \in InvalidIdentifiers) => requests = <<>>

\* C5 amended: in an invocation of getAllUserData with an identifier matching
\* neither pattern, getUser rejects the identifier before any network call,
\* no accounts GET and no dependent lookup is ever issued, the invocation
\* returns no result, and the one remote request it issues is the retirement
\* GET of the fallback, keyed on the rejected identifier.
C5_Theorem ==
  (InAllUserData /\ arg \in InvalidIdentifiers) =>
    /\ caught = InvalidArgument
    /\ outcome.kind # "return"
    /\ pc \in {"catch", "done"}
    /\ pc = "catch" => requests = <<>>
    /\ pc = "done" => Issued = <<Request("GET", RetirementUrl, arg)>>

C5_Witness ==
  /\ InAllUserData /\ arg = "a b" /\ pc = "done"
  /\ Len(requests) = 1 /\ outcome = Throw(InvalidArgument)

-----------------------------------------------------------------------------
(* C6 *)

\* C6: for every identifier matching neither pattern, getUser fails with the
\* invalid-argument error, which carries no userError descriptor, and has
\* issued no remote GET.
C6_Theorem ==
  (op = "getUser" /\ arg \in InvalidIdentifiers) =>
    /\ pc = "done"
    /\ outcome.kind = "throw"
    /\ outcome.error.name = "Error"
    /\ outcome.error.message = "Invalid Argument!"
    /\ outcome.error.userError = Undefined
    /\ requests = <<>>

C6_Witness ==
  /\ op = "getUser" /\ arg = "a%" /\ pc = "done"
  /\ outcome.kind = "throw" /\ requests = <<>>

-----------------------------------------------------------------------------
(* C7 *)

\* the accounts GET of the invocation was answered with a payload
AccountsAnswered ==
  /\ requests # <<>>
  /\ requests[1].req.endpoint \in {AccountsByEmailUrl, AccountsByUsernameUrl}
  /\ requests[1].resp.ok

\* C7 as stated: for an array payload of any length, the empty one included,
\* getUser returns its first element (data[0]), for any other payload the
\* payload, and the user of getAllUserData is never an array.
C7_Original ==
  /\ (op = "getUser" /\ AccountsAnswered) =>
       LET d == requests[1].resp.data
       IN outcome = Return(IF d.tag # "array" THEN d
                           ELSE IF Len(d.elems) > 0 THEN d.elems[1] ELSE Undefined)
  /\ InAllUserData => user.tag # "array"

\* C7 amended: for a non-empty array payload getUser returns its first
\* element, for an empty array or a non-array payload it returns the payload
\* itself; the user of getAllUserData is therefore a single record or null,
\* except for the empty-array payload, where it is that empty array and the
\* dependent lookups are keyed on the text "undefined".
C7_Theorem ==
  /\ (op = "getUser" /\ AccountsAnswered) =>
       LET d == requests[1].resp.data
       IN outcome = Return(IF d.tag = "array" /\ Len(d.elems) > 0 THEN d.elems[1] ELSE d)
  /\ (InAllUserData /\ AccountsAnswered) =>
       LET d == requests[1].resp.data
       IN /\ user = IF d.tag = "array" /\ Len(d.elems) > 0 THEN d.elems[1] ELSE d
          /\ user.tag = "array" =>
               /\ d = EmptyArray
               /\ \A k \in 2..Len(requests) : requests[k].req.key = "undefined"

C7_Witness ==
  /\ op = "getUser" /\ AccountsAnswered /\ arg = "a@b.co"
  /\ requests[1].resp.data.tag = "array"
  /\ Len(requests[1].resp.data.elems) = 2
  /\ requests[1].resp.data.elems[1] # requests[1].resp.data.elems[2]
  /\ outcome = Return(requests[1].resp.data.elems[1])

-----------------------------------------------------------------------------
(* C8 *)

\* C8 as stated: for every failure of its GET getUserVerificationStatus
\* completes normally, returning the "Not Available" record on a 404 and the
\* "Error, status unknown" record on every other failure.
C8_Claim ==
  (op = "getUserVerificationStatus" /\ pc = "done" /\ ~requests[1].resp.ok) =>
    outcome = Return([status |-> IF requests[1].resp.status = 404
                                 THEN "Not Available" ELSE "Error, status unknown",
                      expirationDatetime |-> "", isVerified |-> FALSE])

-----------------------------------------------------------------------------
(* C9 *)

MutationOps == {"patchEntitlement", "postEntitlement", "postEnrollmentChange"}

-----------------------------------------------------------------------------
(* C10 *)

\* C10: when the user lookup succeeded and the entitlements GET or the
\* enrollments GET fails, getAllUserData fails with that same failure, no
\* descriptor attached and nothing returned, and no later dependent lookup
\* is issued.
C10_Theorem ==
  (InAllUserData /\ AccountsAnswered) =>
    \A k \in 2..Len(requests) :
      (requests[k].req.endpoint \in {EntitlementsUrl, EnrollmentUrl} /\ ~requests[k].resp.ok) =>
        /\ k = Len(requests)
        /\ pc = "done"
        /\ outcome.kind = "throw"
        /\ outcome.error.name = "HttpError"
        /\ outcome.error.message = requests[k].req.endpoint
        /\ outcome.error.status = requests[k].resp.status
        /\ outcome.error.userError = Undefined
        /\ errors = <<>>

C10_Witness ==
  /\ InAllUserData /\ AccountsAnswered /\ pc = "done"
  /\ Len(requests) = 3
  /\ requests[3].req.endpoint = EnrollmentUrl
  /\ requests[3].resp.status = 500
  /\ outcome.kind = "throw"

====
